---- MODULE Spec2Model ----
(***************************************************************************)
(* Model of compress.py: the batch handler NagarkotCompressorApp.run_process*)
(* with the compression strategies it calls and the size-bounded splitter   *)
(* split_pdf.  Files are paths mapped to abstract contents; the size of a   *)
(* saved container is an input drawn when it is first serialized.           *)
(***************************************************************************)
EXTENDS Integers, Sequences, FiniteSets, TLC

\* ------------------------------------------------------------------ bounds
MaxFiles == 2
\* pages of a document in a batch run, and in a run on a single file
MaxBatchPages == 2
MaxPages == 5

\* ------------------------------------------------------- paths and contents
TempDir == "tmp"

\* a path is a directory and a file name without its ".pdf" extension
InputPaths ==
    { [dir |-> "in", name |-> "a"],
      [dir |-> "out", name |-> "a"],
      [dir |-> "out", name |-> "a_part1"] }

OutputDirs == {"", "out"}

Actions == {"Split Only", "Compress Only", "Compress + Split"}

Levels == {"Standard (GS)", "Extreme (B&W)"}

\* DEFAULT_TARGET_MB = 1.9, in tenths of a MB
DefaultTargetTenths == 19

SplitLimits == {DefaultTargetTenths}

\* int(split_mb * 1024 * 1024)
TargetBytes(tenths) == (tenths * 1024 * 1024) \div 10

\* sizes a saved container can have: the budget exactly, or one byte over
Sizes(max_size_bytes) == {max_size_bytes, max_size_bytes + 1}

Basename(path) == path.name \o ".pdf"

SplitextBase(path) == path.name

TempComp(base) == [dir |-> TempDir, name |-> base \o "_comp_temp"]

FinalOutput(folder, base) == [dir |-> folder, name |-> base \o "_processed"]

TrialPath(base) == [dir |-> TempDir, name |-> "__trial_" \o base]

PartPath(folder, base, index) ==
    [dir |-> folder, name |-> base \o "_part" \o ToString(index)]

\* contents: id is the input file the bytes derive from, ops the rewrites
\* (compression, page extraction) applied to it
Orig(i) == [id |-> i, ops |-> <<>>]

Rewritten(content, op) == [content EXCEPT !.ops = Append(@, op)]

EmptyFile == [id |-> 0, ops |-> <<"empty">>]

\* whether a file holds any byte
NonEmpty(content) == content # EmptyFile

get_file_size(files, path) ==
    IF path \in DOMAIN files /\ NonEmpty(files[path]) THEN 1 ELSE 0

Exists(files, path) == path \in DOMAIN files

WriteFile(files, path, content) ==
    [q \in (DOMAIN files) \cup {path} |-> IF q = path THEN content ELSE files[q]]

RemoveFile(files, path) == [q \in (DOMAIN files) \ {path} |-> files[q]]

\* shutil.move: the source is renamed to the destination
MoveFile(files, src, dst) == RemoveFile(WriteFile(files, dst, files[src]), src)

\* shutil.copy
CopyFile(files, src, dst) == WriteFile(files, dst, files[src])

\* a file fitz can open: present and not empty
Openable(files, path) == Exists(files, path) /\ NonEmpty(files[path])

\* ------------------------------------------------------------ run_process
ShouldCompress(a) == a = "Compress Only" \/ a = "Compress + Split"

\* "Split" in act
SplitRequested(a) == a \in {"Split Only", "Compress + Split"}

\* faulty variant: the fallback runs whatever the first strategy returned
NeedsFallback_always(ok) == TRUE

\* if not success: success = compress_pymupdf_optimize(...)
NeedsFallback(ok) == ~ok

\* faulty variant: any file at the temporary path is taken as the result
CompressionAccepted_exists(ok, files, temp_comp) == Exists(files, temp_comp)

\* if success and os.path.exists(temp_comp) and get_file_size(temp_comp) > 0
CompressionAccepted(ok, files, temp_comp) ==
    ok /\ Exists(files, temp_comp) /\ get_file_size(files, temp_comp) > 0

\* faulty variant: the temporary path is used whether or not it was accepted
WorkingSource_temp(accepted, pdf_path, temp_comp) == temp_comp

WorkingSource(accepted, pdf_path, temp_comp) ==
    IF accepted THEN temp_comp ELSE pdf_path

\* --------------------------------------------------------------- split_pdf
\* if part_doc.page_count == 0
AlwaysAddFirst(part) == Len(part) = 0

\* faulty variant: a trial of exactly the budget is rejected
TrialRejected_strict(trial_size, max_size_bytes) == trial_size >= max_size_bytes

\* faulty variant: a trial one byte over the budget is accepted
TrialRejected_lax(trial_size, max_size_bytes) == trial_size > max_size_bytes + 1

\* if trial_size > max_size_bytes: break
TrialRejected(trial_size, max_size_bytes) == trial_size > max_size_bytes

\* faulty variant: the cursor is not incremented
AdvanceCursor_stay(cursor) == cursor

\* p += 1
AdvanceCursor(cursor) == cursor + 1

\* faulty variant: the next part starts one page late
NextStart_skip(cursor) == cursor + 1

\* start = p
NextStart(cursor) == cursor

\* ------------------------------------------------------------------- state
VARIABLES
    pdf_list,        \* self.pdf_list
    output_folder,   \* self.output_dir_var
    act,             \* self.action_var
    clevel,          \* self.comp_level_var
    split_mb,        \* self.size_var, in tenths of a MB
    target_bytes,    \* int(split_mb * 1024 * 1024)
    tree,            \* rows of the status table: [file, status]
    fs,              \* the file system: path -> content
    pc,              \* position in run_process
    idx,             \* index in pdf_list of the file being processed
    current_source,  \* working source path
    success,         \* result of the compression strategies
    doc,             \* content of the document split_pdf has open
    total_pages,
    start,
    p,
    part_index,
    part_doc,        \* page indices held by the candidate part
    outputs,         \* paths returned by split_pdf
    parts,           \* the parts saved by this split_pdf call: [pages, path]
    sizeOf,          \* serialized size of each page sequence measured so far
    trials,          \* the inner-loop iterations: the candidate part and the
                     \* page looked at, the trial size if one was measured,
                     \* whether the page was added, the cursor afterwards
    prev_start,      \* value of start at the previous outer iteration
    outerIters,
    msg,             \* last message passed to update_status for this file
    attempts,        \* the strategies run for this file, in order, with results
    faulted,         \* an I/O operation of split/save raised for this file
    processed        \* the files the loop has finished with

vars == << pdf_list, output_folder, act, clevel, split_mb, target_bytes, tree, fs,
           pc, idx, current_source, success, doc, total_pages,
           start, p, part_index, part_doc, outputs, parts, sizeOf, trials,
           prev_start, outerIters, msg, attempts, faulted, processed >>

config == << pdf_list, output_folder, act, clevel, split_mb >>

splitVars == << doc, total_pages, start, p, part_index, part_doc, outputs,
                parts, sizeOf, trials, prev_start, outerIters >>

NoDoc == [id |-> 0, ops |-> <<>>]

NoPath == [dir |-> "", name |-> ""]

\* select_pdfs: a path is appended only when it is not in the list yet
FileLists ==
    { s \in UNION { [1..n -> InputPaths] : n \in 0..MaxFiles } :
        \A i, j \in DOMAIN s : i # j => s[i] # s[j] }

SplitIdle ==
    /\ doc = NoDoc
    /\ total_pages = 0
    /\ start = 0
    /\ p = 0
    /\ part_index = 1
    /\ part_doc = <<>>
    /\ outputs = <<>>
    /\ parts = <<>>
    /\ sizeOf = <<>>
    /\ trials = <<>>
    /\ prev_start = -1
    /\ outerIters = 0

\* the locals of split_pdf before a call
ResetSplit ==
    /\ doc' = NoDoc
    /\ total_pages' = 0
    /\ start' = 0
    /\ p' = 0
    /\ part_index' = 1
    /\ part_doc' = <<>>
    /\ outputs' = <<>>
    /\ parts' = <<>>
    /\ sizeOf' = <<>>
    /\ trials' = <<>>
    /\ prev_start' = -1
    /\ outerIters' = 0

Init ==
    /\ pdf_list \in FileLists
    /\ output_folder \in OutputDirs
    /\ act \in Actions
    /\ clevel \in Levels
    /\ split_mb \in SplitLimits
    /\ target_bytes = 0
    /\ tree = [i \in DOMAIN pdf_list |->
                 [file |-> Basename(pdf_list[i]), status |-> "Pending"]]
    /\ fs = [q \in {pdf_list[i] : i \in DOMAIN pdf_list} |->
               Orig(CHOOSE i \in DOMAIN pdf_list : pdf_list[i] = q)]
    /\ pc = "idle"
    /\ idx = 0
    /\ current_source = NoPath
    /\ success = FALSE
    /\ SplitIdle
    /\ msg = ""
    /\ attempts = <<>>
    /\ faulted = FALSE
    /\ processed = 0

\* ------------------------------------------------------------- update_status
\* the first row whose file column equals filename_base gets the message
update_status(rows, filename_base, m) ==
    LET hits == { i \in DOMAIN rows : rows[i].file = filename_base }
    IN  IF hits = {} THEN rows
        ELSE LET first == CHOOSE i \in hits : \A j \in hits : i <= j
             IN  [rows EXCEPT ![first].status = m]

pdf_path == pdf_list[idx]

base_name == Basename(pdf_path)

base == SplitextBase(pdf_path)

temp_comp == TempComp(base)

final_output == FinalOutput(output_folder, base)

\* f"Compressing ({clevel})..."
CompressingMsg(level) == "Compressing (" \o level \o ")..."

Report(m) ==
    /\ tree' = update_status(tree, base_name, m)
    /\ msg' = m

\* ------------------------------------------------------------- run_process
\* the two early returns, else the loop over pdf_list starts
RunProcess ==
    /\ pc = "idle"
    /\ IF pdf_list = <<>> \/ output_folder = ""
       THEN pc' = "returned" /\ idx' = idx
       ELSE pc' = "loop" /\ idx' = 1
    /\ UNCHANGED << config, target_bytes, tree, fs, current_source, success,
                    splitVars, msg, attempts, faulted, processed >>

\* for pdf_path in self.pdf_list: ... up to the compression branch
BeginFile ==
    /\ pc = "loop"
    /\ idx <= Len(pdf_list)
    /\ current_source' = pdf_path
    /\ success' = FALSE
    /\ ResetSplit
    /\ IF ShouldCompress(act)
       THEN /\ tree' = update_status(update_status(tree, base_name, "Processing..."),
                                     base_name, CompressingMsg(clevel))
            /\ msg' = CompressingMsg(clevel)
            /\ pc' = "compress"
       ELSE /\ Report("Processing...")
            /\ pc' = "mode"
    /\ attempts' = <<>>
    /\ faulted' = FALSE
    /\ UNCHANGED << config, target_bytes, fs, idx, processed >>

\* compress_binary_bw: writes the rasterized document, or fails
CompressBinaryBW ==
    /\ pc = "compress"
    /\ clevel = "Extreme (B&W)"
    /\ \E ok \in BOOLEAN :
        /\ ok => Openable(fs, pdf_path)
        /\ success' = ok
        /\ fs' = IF ok THEN WriteFile(fs, temp_comp, Rewritten(fs[pdf_path], "bw"))
                 ELSE fs
        /\ attempts' = Append(attempts, [strategy |-> "bw", ok |-> ok])
    /\ pc' = "accept"
    /\ UNCHANGED << config, target_bytes, tree, idx, current_source, splitVars,
                    msg, faulted, processed >>

\* compress_standard_gs: success needs exit code 0, the output present and
\* not empty; a failed run may leave an empty output file behind
CompressStandardGS ==
    /\ pc = "compress"
    /\ clevel = "Standard (GS)"
    /\ \E outcome \in {"ok", "fail", "empty"} :
        /\ outcome = "ok" => Openable(fs, pdf_path)
        /\ fs' = CASE outcome = "ok" ->
                        WriteFile(fs, temp_comp, Rewritten(fs[pdf_path], "gs"))
                   [] outcome = "empty" -> WriteFile(fs, temp_comp, EmptyFile)
                   [] OTHER -> fs
        /\ success' = (outcome = "ok")
        /\ attempts' = Append(attempts, [strategy |-> "gs", ok |-> outcome = "ok"])
        /\ pc' = IF NeedsFallback(outcome = "ok") THEN "fallback" ELSE "accept"
    /\ UNCHANGED << config, target_bytes, tree, idx, current_source, splitVars,
                    msg, faulted, processed >>

\* compress_pymupdf_optimize: re-save with deflate and garbage collection
CompressPymupdfOptimize ==
    /\ pc = "fallback"
    /\ \E ok \in BOOLEAN :
        /\ ok => Openable(fs, pdf_path)
        /\ success' = ok
        /\ fs' = IF ok THEN WriteFile(fs, temp_comp, Rewritten(fs[pdf_path], "opt"))
                 ELSE fs
        /\ attempts' = Append(attempts, [strategy |-> "opt", ok |-> ok])
    /\ pc' = "accept"
    /\ UNCHANGED << config, target_bytes, tree, idx, current_source, splitVars,
                    msg, faulted, processed >>

\* the working source becomes the compressed copy only when it is usable
AcceptCompression ==
    /\ pc = "accept"
    /\ current_source' =
         WorkingSource(CompressionAccepted(success, fs, temp_comp), pdf_path, temp_comp)
    /\ pc' = "mode"
    /\ UNCHANGED << config, target_bytes, tree, fs, idx, success, splitVars,
                    msg, attempts, faulted, processed >>

\* the else branch: move the compressed copy, or copy the input
SaveOutput ==
    /\ pc = "mode"
    /\ ~SplitRequested(act)
    /\ \/ /\ Exists(fs, current_source)
          /\ fs' = IF current_source # pdf_path
                   THEN MoveFile(fs, current_source, final_output)
                   ELSE CopyFile(fs, pdf_path, final_output)
          /\ Report("Done (Saved)")
          /\ pc' = "loop"
          /\ idx' = idx + 1
          /\ processed' = processed + 1
          /\ UNCHANGED faulted
       \/ /\ ~Exists(fs, current_source)
          /\ pc' = "except"
          /\ UNCHANGED << fs, tree, msg, idx, faulted, processed >>
       \/ /\ faulted' = TRUE
          /\ pc' = "except"
          /\ UNCHANGED << fs, tree, msg, idx, processed >>
    /\ UNCHANGED << config, target_bytes, current_source, success, splitVars, attempts >>

\* except Exception: the file's status becomes Error and the loop goes on
HandleException ==
    /\ pc = "except"
    /\ Report("Error")
    /\ pc' = "loop"
    /\ idx' = idx + 1
    /\ processed' = processed + 1
    /\ UNCHANGED << config, target_bytes, fs, current_source, success, splitVars,
                    attempts, faulted >>

\* the loop is over: messagebox "All tasks completed."
Finish ==
    /\ pc = "loop"
    /\ idx > Len(pdf_list)
    /\ pc' = "done"
    /\ UNCHANGED << config, target_bytes, tree, fs, idx, current_source, success,
                    splitVars, msg, attempts, faulted, processed >>

\* --------------------------------------------------------------- split_pdf
trial_path == TrialPath(base)

out_path == PartPath(output_folder, base, part_index)

\* size of the container saved from the pages pgs with deflate and garbage
\* collection: the size measured before for these pages, else any size
SaveSizes(pgs) ==
    IF pgs \in DOMAIN sizeOf THEN {sizeOf[pgs]} ELSE Sizes(target_bytes)

Measured(pgs, size) ==
    [k \in (DOMAIN sizeOf) \cup {pgs} |-> IF k = pgs THEN size ELSE sizeOf[k]]

\* self.update_status("Splitting..."), then split_pdf up to the outer loop
BeginSplit(most) ==
    /\ pc = "mode"
    /\ SplitRequested(act)
    /\ Report("Splitting...")
    /\ target_bytes' = TargetBytes(split_mb)
    /\ \/ /\ Openable(fs, current_source)
          /\ doc' = fs[current_source]
          /\ total_pages' \in 1..most
          /\ outputs' = <<>>
          /\ start' = 0
          /\ part_index' = 1
          /\ pc' = "outer"
          /\ UNCHANGED faulted
       \/ /\ ~Openable(fs, current_source)
          /\ pc' = "except"
          /\ UNCHANGED << doc, total_pages, outputs, start, part_index, faulted >>
       \/ /\ faulted' = TRUE
          /\ pc' = "except"
          /\ UNCHANGED << doc, total_pages, outputs, start, part_index >>
    /\ UNCHANGED << config, fs, idx, current_source, success, p, part_doc, parts,
                    sizeOf, trials, prev_start, outerIters, attempts, processed >>

\* while start < total_pages: part_doc = fitz.open(); p = start
OuterLoop ==
    /\ pc = "outer"
    /\ start < total_pages
    /\ part_doc' = <<>>
    /\ p' = start
    /\ outerIters' = outerIters + 1
    /\ pc' = "inner"
    /\ UNCHANGED << config, target_bytes, tree, fs, idx, current_source, success, doc,
                    total_pages, start, part_index, outputs, parts, sizeOf, trials,
                    prev_start, msg, attempts, faulted, processed >>

\* one iteration of while p < total_pages
InnerLoop ==
    /\ pc = "inner"
    /\ p < total_pages
    /\ \/ /\ AlwaysAddFirst(part_doc)
          /\ part_doc' = Append(part_doc, p)
          /\ p' = AdvanceCursor(p)
          /\ trials' = Append(trials, [part |-> part_doc, page |-> p, size |-> 0,
                                       measured |-> FALSE, added |-> TRUE,
                                       next |-> AdvanceCursor(p)])
          /\ pc' = "inner"
          /\ UNCHANGED << fs, sizeOf, faulted >>
       \/ /\ ~AlwaysAddFirst(part_doc)
          /\ \E trial_size \in SaveSizes(Append(part_doc, p)) :
               /\ fs' = WriteFile(fs, trial_path, Rewritten(doc, "trial"))
               /\ sizeOf' = Measured(Append(part_doc, p), trial_size)
               /\ trials' = Append(trials,
                                   [part |-> part_doc, page |-> p, size |-> trial_size,
                                    measured |-> TRUE,
                                    added |-> ~TrialRejected(trial_size, target_bytes),
                                    next |-> IF TrialRejected(trial_size, target_bytes)
                                             THEN p ELSE AdvanceCursor(p)])
               /\ IF TrialRejected(trial_size, target_bytes)
                  THEN pc' = "emit" /\ UNCHANGED << part_doc, p >>
                  ELSE /\ part_doc' = Append(part_doc, p)
                       /\ p' = AdvanceCursor(p)
                       /\ pc' = "inner"
          /\ UNCHANGED faulted
       \/ /\ ~AlwaysAddFirst(part_doc)
          /\ faulted' = TRUE
          /\ pc' = "except"
          /\ UNCHANGED << fs, sizeOf, trials, part_doc, p >>
    /\ UNCHANGED << config, target_bytes, tree, idx, current_source, success, doc,
                    total_pages, start, part_index, outputs, parts, prev_start,
                    outerIters, msg, attempts, processed >>

\* the inner loop is left (break, or p reached total_pages): the part is
\* saved, start = p, part_index += 1
EmitPart ==
    /\ pc = "emit" \/ (pc = "inner" /\ p >= total_pages)
    /\ \/ /\ fs' = WriteFile(fs, out_path, Rewritten(doc, "part"))
          /\ parts' = Append(parts, [pages |-> part_doc, path |-> out_path])
          /\ outputs' = Append(outputs, out_path)
          /\ prev_start' = start
          /\ start' = NextStart(p)
          /\ part_index' = part_index + 1
          /\ pc' = "outer"
          /\ UNCHANGED faulted
       \/ /\ faulted' = TRUE
          /\ pc' = "except"
          /\ UNCHANGED << fs, parts, outputs, prev_start, start, part_index >>
    /\ UNCHANGED << config, target_bytes, tree, idx, current_source, success, doc,
                    total_pages, p, part_doc, sizeOf, trials, outerIters, msg,
                    attempts, processed >>

\* the outer loop is over: doc.close(), return outputs, "Done (Split)"
SplitReturn ==
    /\ pc = "outer"
    /\ start >= total_pages
    /\ Report("Done (Split)")
    /\ pc' = "loop"
    /\ idx' = idx + 1
    /\ processed' = processed + 1
    /\ UNCHANGED << config, target_bytes, fs, current_source, success, splitVars,
                    attempts, faulted >>

Next ==
    \/ RunProcess
    \/ BeginFile
    \/ CompressBinaryBW
    \/ CompressStandardGS
    \/ CompressPymupdfOptimize
    \/ AcceptCompression
    \/ BeginSplit(MaxBatchPages)
    \/ OuterLoop
    \/ InnerLoop
    \/ EmitPart
    \/ SplitReturn
    \/ SaveOutput
    \/ HandleException
    \/ Finish

\* a batch of up to MaxFiles files
Spec == Init /\ [][Next]_vars

\* a run on at most one file, with documents of up to MaxPages pages
InitOne == Init /\ Len(pdf_list) <= 1

NextOne ==
    \/ RunProcess
    \/ BeginFile
    \/ CompressBinaryBW
    \/ CompressStandardGS
    \/ CompressPymupdfOptimize
    \/ AcceptCompression
    \/ BeginSplit(MaxPages)
    \/ OuterLoop
    \/ InnerLoop
    \/ EmitPart
    \/ SplitReturn
    \/ SaveOutput
    \/ HandleException
    \/ Finish

SpecOne == InitOne /\ [][NextOne]_vars

\* ------------------------------------------------------------- properties
\* the loop has finished with file idx - 1; msg, attempts, faulted and the
\* locals of split_pdf still describe that file
Finished == pc \in {"loop", "done"} /\ processed >= 1

last_path == pdf_list[idx - 1]

last_base == SplitextBase(last_path)

last_final == FinalOutput(output_folder, last_base)

AfterCompression == pc \in {"mode", "outer", "inner", "emit", "except"} \/ Finished

\* every strategy run for the file failed
AllFailed == attempts # <<>> /\ \A i \in DOMAIN attempts : ~attempts[i].ok

Terminal == {"Done (Saved)", "Done (Split)", "Error"}

RECURSIVE Flatten(_)
Flatten(ps) == IF ps = <<>> THEN <<>> ELSE Head(ps).pages \o Flatten(Tail(ps))

\* the page indices 0, 1, ..., n-1
Upto(n) == [i \in 1..n |-> i - 1]

IsPrefix(u, v) == Len(u) <= Len(v) /\ SubSeq(v, 1, Len(u)) = u

LastPage(pgs) == pgs[Len(pgs)]

\* C1: the parts emitted so far, concatenated in emission order, are exactly
\* the pages 0 .. start-1 in source order, part k is written to <base>_partK,
\* and when split_pdf has returned they are all the pages 0 .. N-1
C1_PartitionComplete ==
    /\ Flatten(parts) = Upto(start)
    /\ \A k \in DOMAIN parts : parts[k].pages # <<>>
    /\ msg = "Done (Split)" => start = total_pages /\ Len(outputs) = Len(parts)

C1_Witness ==
    /\ Finished
    /\ msg = "Done (Split)"
    /\ total_pages = 4
    /\ Len(parts) = 3
    /\ Flatten(parts) = <<0, 1, 2, 3>>

\* C2: a part of two or more pages was measured by the trial save of exactly
\* its pages, and that size is at most max_size_bytes; only one-page parts
\* are written without a size check
C2_BudgetRespected ==
    \A k \in DOMAIN parts :
        Len(parts[k].pages) >= 2 =>
            /\ parts[k].pages \in DOMAIN sizeOf
            /\ sizeOf[parts[k].pages] <= target_bytes

C2_Witness ==
    /\ msg = "Done (Split)"
    /\ total_pages = 4
    /\ \E k \in DOMAIN parts : Len(parts[k].pages) = 3
    /\ \E k \in DOMAIN parts : Len(parts[k].pages) >= 2
    /\ \E k \in DOMAIN parts : Len(parts[k].pages) = 1

\* C3: when every strategy run for a file failed, the working source is the
\* input path, and the file saved as <base>_processed holds the bytes of
\* the original input
C3_NonDestructiveOnFailure ==
    /\ (AfterCompression /\ ~Finished /\ AllFailed) => current_source = pdf_path
    /\ (Finished /\ AllFailed) => current_source = last_path
    /\ (Finished /\ AllFailed /\ msg = "Done (Saved)") =>
          /\ Exists(fs, last_final)
          /\ fs[last_final] = Orig(idx - 1)
          /\ fs[last_path] = Orig(idx - 1)

C3_Witness ==
    /\ Finished
    /\ msg = "Done (Saved)"
    /\ clevel = "Standard (GS)"
    /\ Len(attempts) = 2
    /\ AllFailed
    /\ fs[last_final] = Orig(idx - 1)

\* C4 as stated: after every strategy failed the outcome is Error and no
\* output is written for the file
C4_ErrorOnFailure ==
    (Finished /\ AllFailed) =>
        /\ msg = "Error"
        /\ ~Exists(fs, last_final)
        /\ parts = <<>>

\* C4 amended: after every strategy failed the file is processed from the
\* original input: unless an I/O step of split or save raised, the outcome is
\* Done (Saved) or Done (Split) and the output is written; the outcome is
\* Error only when such a step raised; the loop goes on to the next file
C4_DegradesToOriginal ==
    /\ (Finished /\ AllFailed /\ ~faulted) =>
          /\ msg \in {"Done (Saved)", "Done (Split)"}
          /\ msg = "Done (Saved)" => Exists(fs, last_final) /\ ~SplitRequested(act)
          /\ msg = "Done (Split)" =>
                /\ parts # <<>>
                /\ \A k \in DOMAIN outputs : Exists(fs, outputs[k])
    /\ (Finished /\ AllFailed /\ msg = "Error") => faulted
    /\ (Finished /\ AllFailed) => processed = idx - 1
    /\ pc = "done" => processed = Len(pdf_list)

C4_Witness ==
    /\ pc = "done"
    /\ Len(pdf_list) = 2
    /\ AllFailed
    /\ ~faulted
    /\ msg = "Done (Split)"

\* C5: at Standard the first strategy run is the external tool, the
\* container optimization runs exactly when the external tool failed, its
\* output is the working source when it succeeded, and the binarization
\* never runs
C5_FallbackOrder ==
    clevel = "Standard (GS)" =>
        /\ \A i \in DOMAIN attempts : attempts[i].strategy # "bw"
        /\ Len(attempts) <= 2
        /\ Len(attempts) >= 1 => attempts[1].strategy = "gs"
        /\ Len(attempts) = 2 => attempts[2].strategy = "opt" /\ ~attempts[1].ok
        /\ (AfterCompression /\ Len(attempts) >= 1 /\ ~attempts[1].ok) => Len(attempts) = 2
        /\ (AfterCompression /\ ~Finished /\ Len(attempts) = 2 /\ attempts[2].ok) =>
              current_source = temp_comp
        /\ (pc = "mode" /\ Len(attempts) = 2 /\ attempts[2].ok) =>
              fs[current_source] = Rewritten(fs[pdf_path], "opt")

C5_Witness ==
    /\ clevel = "Standard (GS)"
    /\ pc = "mode"
    /\ Len(attempts) = 2
    /\ attempts[2].ok
    /\ current_source = temp_comp

\* C6 as stated: when the loop has finished with a file, neither its
\* compressed working copy nor its trial file is in the temporary directory
C6_NoTempLeft ==
    Finished =>
        /\ ~Exists(fs, TempComp(last_base))
        /\ ~Exists(fs, TrialPath(last_base))

\* C7 as stated: a raised exception is recorded as Error in the file's row,
\* every file is processed, and at the end every row of the batch holds a
\* terminal status
C7_EveryFileTerminal ==
    /\ (Finished /\ faulted) => tree[idx - 1].status = "Error"
    /\ pc = "done" =>
          /\ processed = Len(pdf_list)
          /\ \A i \in DOMAIN tree : tree[i].status \in Terminal

\* C8 as stated: every input file is present and holds its original bytes
C8_InputsReadOnly ==
    \A i \in DOMAIN pdf_list :
        /\ Exists(fs, pdf_list[i])
        /\ fs[pdf_list[i]] = Orig(i)

\* C9 as stated, for the loop over pages: every iteration leaves the cursor
\* further than it found it, and there are at most N iterations
C9_EveryIterationAdvances ==
    /\ \A k \in DOMAIN trials : trials[k].next > trials[k].page
    /\ Len(trials) <= total_pages

\* C9 amended: every iteration of the outer loop (one per part) moves start
\* forward by at least one page, so there are at most N outer iterations; an
\* iteration of the inner loop advances the cursor by one page unless it
\* rejects the page, and there are at most 2N-1 inner iterations
C9_OuterLoopAdvances ==
    /\ parts # <<>> => start > prev_start /\ prev_start >= 0
    /\ start <= total_pages
    /\ outerIters <= total_pages
    /\ Len(parts) <= outerIters
    /\ \A k \in DOMAIN trials :
          trials[k].next = IF trials[k].added THEN trials[k].page + 1 ELSE trials[k].page
    /\ total_pages > 0 => Len(trials) <= 2 * total_pages - 1
    /\ total_pages = 0 => trials = <<>>

C9_Witness ==
    /\ msg = "Done (Split)"
    /\ total_pages = 4
    /\ outerIters = 4
    /\ Len(trials) = 7

\* C10: every part but the last was closed by a trial of its pages plus the
\* next page that measured more than max_size_bytes, the next part starts
\* with that page, and a page whose trial measured at most max_size_bytes
\* was added to the candidate part
C10_Greedy ==
    /\ \A k \in DOMAIN parts :
          LastPage(parts[k].pages) + 1 < total_pages =>
              LET rejected == LastPage(parts[k].pages) + 1
                  trial == Append(parts[k].pages, rejected)
              IN  /\ trial \in DOMAIN sizeOf
                  /\ sizeOf[trial] > target_bytes
                  /\ k < Len(parts) => Head(parts[k + 1].pages) = rejected
                  /\ k = Len(parts) => start = rejected
    /\ \A k \in DOMAIN trials :
          (trials[k].measured /\ trials[k].size <= target_bytes) =>
              /\ trials[k].added
              /\ \/ IsPrefix(Append(trials[k].part, trials[k].page), part_doc)
                 \/ \E j \in DOMAIN parts :
                       IsPrefix(Append(trials[k].part, trials[k].page), parts[j].pages)

C10_Witness ==
    /\ msg = "Done (Split)"
    /\ total_pages = 4
    /\ Len(parts) = 2
    /\ \E k \in DOMAIN trials : trials[k].measured /\ trials[k].added
    /\ \E k \in DOMAIN trials : trials[k].measured /\ ~trials[k].added

====
